---- MODULE Spec2Model ----
(***************************************************************************)
(* News-sentiment / stock-return pipeline.                                 *)
(*   - SentimentAnalyzer (sentiment_analyzer.py): load_data,               *)
(*     get_sentiment_score, _align_to_trading_day, analyze_sentiment,      *)
(*     save_results                                                        *)
(*   - analyze_correlation (correlation_analysis.py)                       *)
(*                                                                         *)
(* Units: an instant or a wall clock is a number of minutes since          *)
(* 1970-01-01T00:00; a calendar date is a day ordinal (days since          *)
(* 1970-01-01); a sentiment score is in ten-thousandths (VADER rounds the  *)
(* compound to 4 decimals), so 0.05 is 500.                                *)
(***************************************************************************)
EXTENDS Integers, Sequences, FiniteSets, TLC

VARIABLES
    dt,          \* argument handed to _align_to_trading_day
    aligned,     \* what the call produced: a date, None, or an exception
    apc,         \* position of the alignment call: "idle" | "call" | "done"
    file,        \* the CSV at SentimentAnalyzer.file_path: header and rows
    df,          \* SentimentAnalyzer.df: None or a DataFrame
    outcome,     \* the last method call: its name, the exception raised, its message
    ret,         \* the tuple of values the last call returned to its caller
    disk,        \* the CSV written by save_results, if any
    sentiment_csv,   \* analyze_correlation: the annotated news CSV it reads
    stock_csv,       \* analyze_correlation: <stock_data_folder>/<ticker>.csv
    report           \* analyze_correlation: what the call computed and printed

alignVars == <<dt, aligned, apc>>
analyzerVars == <<file, df, outcome, ret, disk>>
corrVars == <<sentiment_csv, stock_csv, report>>
vars == <<dt, aligned, apc, file, df, outcome, ret, disk, sentiment_csv, stock_csv, report>>

------------------------------------------------------------------------------
(* Bounds of the explored input space *)

DaySpan == 2          \* consecutive days explored from each anchor date
MaxRows == 2          \* rows of the news CSV
MaxNews == 3          \* rows of the annotated news CSV read by analyze_correlation

------------------------------------------------------------------------------
(* Proleptic Gregorian calendar, as datetime.date implements it *)

MinutesPerDay == 1440

days_from_civil(y, m, d) ==
    LET yy  == IF m <= 2 THEN y - 1 ELSE y
        era == yy \div 400
        yoe == yy - era * 400
        mp  == IF m > 2 THEN m - 3 ELSE m + 9
        doy == (153 * mp + 2) \div 5 + d - 1
        doe == yoe * 365 + yoe \div 4 - yoe \div 100 + doy
    IN  era * 146097 + doe - 719468

civil_from_days(z) ==
    LET zz  == z + 719468
        era == zz \div 146097
        doe == zz - era * 146097
        yoe == (doe - doe \div 1460 + doe \div 36524 - doe \div 146096) \div 365
        doy == doe - (365 * yoe + yoe \div 4 - yoe \div 100)
        mp  == (5 * doy + 2) \div 153
        d   == doy - (153 * mp + 2) \div 5 + 1
        m   == IF mp < 10 THEN mp + 3 ELSE mp - 9
        y   == yoe + era * 400 + (IF m <= 2 THEN 1 ELSE 0)
    IN  [year |-> y, month |-> m, day |-> d]

\* date.weekday(): Monday = 0 .. Sunday = 6 (1970-01-01 was a Thursday)
weekday(ord) == (ord + 3) % 7

\* ordinal of the n-th Sunday of month m of year y
nth_sunday(y, m, n) ==
    LET first == days_from_civil(y, m, 1)
    IN  first + ((6 - weekday(first)) % 7) + 7 * (n - 1)

------------------------------------------------------------------------------
(* pytz.timezone("US/Eastern"): UTC offset in force at a UTC instant.      *)
(* Rule in force since 2007: daylight time from the second Sunday of March *)
(* 02:00 EST (07:00 UTC) to the first Sunday of November 02:00 EDT         *)
(* (06:00 UTC).                                                            *)

EST_OFFSET == 0 - 300
EDT_OFFSET == 0 - 240

\* variant: a fixed EST zone, no daylight-saving rule
us_eastern_fixed_standard(instant) == EST_OFFSET

us_eastern_utcoffset(instant) ==
    LET y     == civil_from_days(instant \div MinutesPerDay).year
        start == nth_sunday(y, 3, 2) * MinutesPerDay + 7 * 60
        end   == nth_sunday(y, 11, 1) * MinutesPerDay + 6 * 60
    IN  IF start <= instant /\ instant < end THEN EDT_OFFSET ELSE EST_OFFSET

------------------------------------------------------------------------------
(* Values of the "date" cell handed to _align_to_trading_day               *)
(*   kind "None" : None / NaN            kind "NaT" : pandas.NaT           *)
(*   kind "str"  : a string; ok says whether pandas can parse it as the    *)
(*                 timestamp (wall, aware, off)                            *)
(*   kind "ts"   : a pandas.Timestamp with wall clock `wall`, zone-aware   *)
(*                 with UTC offset `off` minutes when aware, else naive    *)

NoneValue == [kind |-> "None", ok |-> FALSE, wall |-> 0, aware |-> FALSE, off |-> 0]
NaT       == [kind |-> "NaT",  ok |-> FALSE, wall |-> 0, aware |-> FALSE, off |-> 0]

Timestamp(wall, aware, off) ==
    [kind |-> "ts", ok |-> TRUE, wall |-> wall, aware |-> aware, off |-> off]

\* pd.isna(x) on a scalar
pd_isna(x) == x.kind \in {"None", "NaT"}

\* pd.to_datetime(x, errors="coerce") on a scalar
pd_to_datetime_coerce(x) ==
    CASE x.kind = "ts"   -> x
      [] x.kind = "str"  -> IF x.ok THEN Timestamp(x.wall, x.aware, x.off) ELSE NaT
      [] OTHER           -> NaT

\* Timestamp.tz_localize(pytz.UTC) on a naive timestamp
tz_localize_utc(ts) == Timestamp(ts.wall, TRUE, 0)

\* the absolute instant (UTC minutes) of a zone-aware timestamp
utc_instant(ts) == ts.wall - ts.off

\* Timestamp.astimezone(pytz.timezone("US/Eastern")): same instant, Eastern wall clock
astimezone_us_eastern(ts) ==
    LET off == us_eastern_utcoffset(utc_instant(ts))
    IN  Timestamp(utc_instant(ts) + off, TRUE, off)

\* Timestamp.date() and Timestamp.hour read the wall clock
ts_date(ts) == ts.wall \div MinutesPerDay
ts_hour(ts) == (ts.wall % MinutesPerDay) \div 60

MARKET_CLOSE_HOUR == 16

DateResult(ord) == [kind |-> "date", ord |-> ord]
NoneResult      == [kind |-> "None", ord |-> 0]
Raised          == [kind |-> "raise", ord |-> 0]
NotCalled       == [kind |-> "pending", ord |-> 0]

\* Variants of the method with one slip each
align_cutoff_early(x) ==
    IF pd_isna(x) THEN NoneResult
    ELSE LET ts == pd_to_datetime_coerce(x) IN
         IF pd_isna(ts) THEN NoneResult
         ELSE LET ts2    == IF ~ts.aware THEN tz_localize_utc(ts) ELSE ts
                  dt_est == astimezone_us_eastern(ts2)
              IN  IF ts_hour(dt_est) >= MARKET_CLOSE_HOUR - 1
                  THEN DateResult(ts_date(dt_est) + 1)
                  ELSE DateResult(ts_date(dt_est))

align_cutoff_strict(x) ==
    IF pd_isna(x) THEN NoneResult
    ELSE LET ts == pd_to_datetime_coerce(x) IN
         IF pd_isna(ts) THEN NoneResult
         ELSE LET ts2    == IF ~ts.aware THEN tz_localize_utc(ts) ELSE ts
                  dt_est == astimezone_us_eastern(ts2)
              IN  IF ts_hour(dt_est) > MARKET_CLOSE_HOUR
                  THEN DateResult(ts_date(dt_est) + 1)
                  ELSE DateResult(ts_date(dt_est))

align_without_localize(x) ==
    IF pd_isna(x) THEN NoneResult
    ELSE LET ts == pd_to_datetime_coerce(x) IN
         IF pd_isna(ts) THEN NoneResult
         ELSE IF ~ts.aware THEN Raised
         ELSE LET dt_est == astimezone_us_eastern(ts)
              IN  IF ts_hour(dt_est) >= MARKET_CLOSE_HOUR
                  THEN DateResult(ts_date(dt_est) + 1)
                  ELSE DateResult(ts_date(dt_est))

\* SentimentAnalyzer._align_to_trading_day (sentiment_analyzer.py)
_align_to_trading_day(x) ==
    IF pd_isna(x) THEN NoneResult
    ELSE LET ts == pd_to_datetime_coerce(x) IN
         IF pd_isna(ts) THEN NoneResult
         ELSE LET ts2    == IF ~ts.aware THEN tz_localize_utc(ts) ELSE ts
                  dt_est == astimezone_us_eastern(ts2)
                  trading_date == ts_date(dt_est)
              IN  IF ts_hour(dt_est) >= MARKET_CLOSE_HOUR
                  THEN DateResult(trading_date + 1)
                  ELSE DateResult(trading_date)

\* The superseded copy of the method ("__pycache__ - Copy/sentiment_analysis.py"):
\* no coercion and no tz_localize, so dt.astimezone fails on a string
\* (AttributeError) and on a zone-naive Timestamp (TypeError).
copy_align_to_trading_day(x) ==
    IF pd_isna(x) THEN NoneResult
    ELSE IF x.kind # "ts" \/ ~x.aware THEN Raised
    ELSE LET dt_est == astimezone_us_eastern(x)
             trading_date == ts_date(dt_est)
         IN  IF ts_hour(dt_est) >= MARKET_CLOSE_HOUR
             THEN DateResult(trading_date + 1)
             ELSE DateResult(trading_date)

------------------------------------------------------------------------------
(* DataFrames.  A frame is a header (column names, in order) and rows; a    *)
(* row is a tuple of cells in header order; every cell is a record with a   *)
(* kind.  self.df = None is the frame with loaded = FALSE.  A file at       *)
(* file_path is absent (exists = FALSE), of zero bytes (no columns), or a   *)
(* CSV with a header line and rows.                                         *)

NoDataFrame == [loaded |-> FALSE, cols |-> <<>>, rows |-> <<>>]
MissingFile == [exists |-> FALSE, cols |-> <<>>, rows |-> <<>>]
EmptyFile   == [exists |-> TRUE,  cols |-> <<>>, rows |-> <<>>]

Frame(cols, rows) == [loaded |-> TRUE, cols |-> cols, rows |-> rows]

TextCell(compound, raises) == [kind |-> "text", compound |-> compound, raises |-> raises]
FloatCell(v)               == [kind |-> "float", v |-> v]
LabelCell(v)               == [kind |-> "label", v |-> v]
OtherCell                  == [kind |-> "other"]

\* str.lower() on the column names that occur
lower(c) ==
    CASE c = "Title"    -> "title"
      [] c = "News"     -> "news"
      [] c = "Datetime" -> "datetime"
      [] c = "TIME"     -> "time"
      [] c = "Date"     -> "date"
      [] OTHER          -> c

DATE_ALIASES == {"date", "datetime", "time"}
TEXT_ALIASES == {"headline", "title", "news", "text"}

\* variant: the alias test without lower()
IsDateAliasExact(c) == c \in DATE_ALIASES

IsDateAlias(c) == lower(c) \in DATE_ALIASES
IsTextAlias(c) == lower(c) \in TEXT_ALIASES

HasColumn(frame, name) == \E j \in 1 .. Len(frame.cols) : frame.cols[j] = name
ColumnCount(frame, name) == Cardinality({ j \in 1 .. Len(frame.cols) : frame.cols[j] = name })
ColumnIndex(frame, name) ==
    CHOOSE j \in 1 .. Len(frame.cols) :
        /\ frame.cols[j] = name
        /\ \A k \in 1 .. (j - 1) : frame.cols[k] # name

\* df[name] for a label that occurs once: the cells of that column, by row
Column(frame, name) ==
    [r \in 1 .. Len(frame.rows) |-> frame.rows[r][ColumnIndex(frame, name)]]

\* df[name] = values: overwrite the column when present, else append it
SetColumn(frame, name, values) ==
    IF HasColumn(frame, name)
    THEN Frame(frame.cols,
               [r \in 1 .. Len(frame.rows) |->
                   [frame.rows[r] EXCEPT ![ColumnIndex(frame, name)] = values[r]]])
    ELSE Frame(Append(frame.cols, name),
               [r \in 1 .. Len(frame.rows) |-> Append(frame.rows[r], values[r])])

\* df.rename(columns={old: new})
RenameColumn(frame, old, new) ==
    Frame([j \in 1 .. Len(frame.cols) |->
               IF frame.cols[j] = old THEN new ELSE frame.cols[j]],
          frame.rows)

\* variant: unparseable text becomes the epoch instead of NaT
pd_to_datetime_utc_epoch(x) ==
    Timestamp(IF x.kind \in {"str", "ts"} /\ x.ok
              THEN x.wall - (IF x.aware THEN x.off ELSE 0) ELSE 0, TRUE, 0)

\* pd.to_datetime(errors="coerce", utc=True) on one element: parseable text
\* becomes a UTC-aware Timestamp (a naive wall clock is read as UTC),
\* anything else NaT
pd_to_datetime_utc(x) ==
    CASE x.kind = "str" /\ x.ok -> Timestamp(x.wall - (IF x.aware THEN x.off ELSE 0), TRUE, 0)
      [] x.kind = "ts"          -> Timestamp(x.wall - (IF x.aware THEN x.off ELSE 0), TRUE, 0)
      [] OTHER                  -> NaT

\* the layout pandas guesses for a string: the zone-aware strings of the
\* files are written "2024-03-15T19:30:00Z", the naive ones
\* "2024-03-15 21:30:00"; no layout is guessed for unparseable text
NO_FORMAT == "none"
guess_datetime_format(x) ==
    IF x.kind = "str" /\ x.ok
    THEN IF x.aware THEN "%Y-%m-%dT%H:%M:%S%z" ELSE "%Y-%m-%d %H:%M:%S"
    ELSE NO_FORMAT

\* index of the first element that is not missing, 0 when all are
first_non_null(col) ==
    IF \E r \in 1 .. Len(col) : ~pd_isna(col[r])
    THEN CHOOSE r \in 1 .. Len(col) :
             /\ ~pd_isna(col[r])
             /\ \A k \in 1 .. (r - 1) : pd_isna(col[k])
    ELSE 0

\* pd.to_datetime(column, errors="coerce", utc=True) on a column of strings
\* (pandas 2): the layout is guessed from the first non-missing element and
\* every element that does not follow it becomes NaT; when no layout can be
\* guessed each element is parsed on its own
pd_to_datetime_utc_series(col) ==
    LET k   == first_non_null(col)
        fmt == IF k = 0 THEN NO_FORMAT ELSE guess_datetime_format(col[k])
    IN  [r \in 1 .. Len(col) |->
            IF fmt = NO_FORMAT \/ guess_datetime_format(col[r]) = fmt
            THEN pd_to_datetime_utc(col[r])
            ELSE NaT]

\* pd.to_datetime on the column of aligned dates: a date becomes midnight
\* of that date (zone-naive), None becomes NaT
pd_to_datetime_date(res) ==
    IF res.kind = "date" THEN Timestamp(res.ord * MinutesPerDay, FALSE, 0) ELSE NaT

------------------------------------------------------------------------------
(* SentimentAnalyzer                                                        *)

\* a call record: the method, its column_name argument ("" when it takes
\* none), the exception type raised ("none" when it returned) and the
\* exception message as a tuple of its literal and interpolated parts
NoCall == [op |-> "__init__", arg |-> "", exc |-> "none", msg |-> <<>>]
Call(op, arg, exc, msg) == [op |-> op, arg |-> arg, exc |-> exc, msg |-> msg]

MSG_NO_DATE == <<"No date/datetime column found in the input CSV.">>
MSG_NO_DATA == <<"No data to save. Run analyze_sentiment() first.">>
MsgNoText(column_name) == <<"Text column '", column_name, "' not found.">>
MSG_NO_FILE    == <<"[Errno 2] No such file or directory">>
MSG_NO_COLUMNS == <<"No columns to parse from file">>

\* SentimentAnalyzer.load_data on an analyzer holding `frame`: the frame left
\* in self.df and the exception raised.  utils.load_csv_data and then
\* pd.read_csv both raise on an absent file and on a file of zero bytes,
\* before self.df is assigned.
load_data(frame, f) ==
    IF ~f.exists
    THEN [df |-> frame, exc |-> "FileNotFoundError", msg |-> MSG_NO_FILE]
    ELSE IF f.cols = <<>>
    THEN [df |-> frame, exc |-> "EmptyDataError", msg |-> MSG_NO_COLUMNS]
    ELSE
    LET raw       == Frame(f.cols, f.rows)
        date_cols == SelectSeq(raw.cols, IsDateAlias)
    IN  IF date_cols = <<>>
        THEN [df |-> raw, exc |-> "ValueError", msg |-> MSG_NO_DATE]
        ELSE LET date_col  == date_cols[1]
                 converted == SetColumn(raw, date_col,
                                  pd_to_datetime_utc_series(Column(raw, date_col)))
             IN  [df |-> RenameColumn(converted, date_col, "date"),
                  exc |-> "none", msg |-> <<>>]

\* SentimentIntensityAnalyzer.polarity_scores(str(text))["compound"], or an exception
polarity_compound(text) ==
    IF text.kind = "text" /\ ~text.raises
    THEN [ok |-> TRUE, compound |-> text.compound]
    ELSE [ok |-> FALSE, compound |-> 0]

\* SentimentAnalyzer.get_sentiment_score
get_sentiment_score(text) ==
    IF pd_isna(text) THEN 0
    ELSE LET p == polarity_compound(text)
         IN  IF p.ok THEN p.compound ELSE 0

POSITIVE_THRESHOLD == 500

\* variant: thresholds taken inclusively
sentiment_label_inclusive(s) ==
    IF s >= POSITIVE_THRESHOLD THEN "positive"
    ELSE IF s <= 0 - POSITIVE_THRESHOLD THEN "negative"
    ELSE "neutral"

\* the labelling lambda of analyze_sentiment
sentiment_label(s) ==
    IF s > POSITIVE_THRESHOLD THEN "positive"
    ELSE IF s < 0 - POSITIVE_THRESHOLD THEN "negative"
    ELSE "neutral"

\* SentimentAnalyzer.analyze_sentiment from a frame already in self.df
analyze_loaded(frame, column_name) ==
    LET candidates == SelectSeq(frame.cols, IsTextAlias)
        missing    == ~HasColumn(frame, column_name)
    IN  IF missing /\ candidates = <<>>
        THEN [df |-> frame, exc |-> "ValueError", msg |-> MsgNoText(column_name)]
        ELSE LET col    == IF missing THEN candidates[1] ELSE column_name
                 n      == Len(frame.rows)
                 scores == [r \in 1 .. n |-> get_sentiment_score(Column(frame, col)[r])]
                 scored == SetColumn(frame, "sentiment_score",
                               [r \in 1 .. n |-> FloatCell(scores[r])])
                 labelled == SetColumn(scored, "sentiment_label",
                               [r \in 1 .. n |-> LabelCell(sentiment_label(scores[r]))])
             IN  IF ~HasColumn(labelled, "date")
                 THEN [df |-> labelled, exc |-> "KeyError", msg |-> <<"date">>]
                 ELSE IF ColumnCount(labelled, "date") > 1
                 \* df["date"] is then a DataFrame; apply hands whole columns to
                 \* _align_to_trading_day, whose `if pd.isna(dt)` raises; on a
                 \* frame without rows apply returns a copy of the two columns
                 \* and the assignment to the single column raises instead
                 THEN [df |-> labelled, exc |-> "ValueError",
                       msg |-> IF n = 0
                               THEN <<"Cannot set a DataFrame with multiple columns to the single column trading_date">>
                               ELSE <<"The truth value of a Series is ambiguous.">>]
                 ELSE [df |-> SetColumn(labelled, "trading_date",
                                 [r \in 1 .. n |->
                                     pd_to_datetime_date(
                                         _align_to_trading_day(Column(labelled, "date")[r]))]),
                       exc |-> "none", msg |-> <<>>]

\* SentimentAnalyzer.analyze_sentiment
analyze_sentiment(frame, f, column_name) ==
    IF ~frame.loaded
    THEN LET l == load_data(frame, f)
         IN  IF l.exc # "none" THEN l ELSE analyze_loaded(l.df, column_name)
    ELSE analyze_loaded(frame, column_name)

\* DataFrame.to_csv(index=False) cell by cell: a Timestamp is written as
\* text that parses back to it, NaT and NaN as the empty field
csv_cell(x) ==
    CASE x.kind = "ts"             -> [kind |-> "str", ok |-> TRUE, wall |-> x.wall,
                                       aware |-> x.aware, off |-> x.off]
      [] x.kind \in {"None", "NaT"} -> NoneValue
      [] OTHER                      -> x

to_csv(frame) ==
    Frame(frame.cols,
          [r \in 1 .. Len(frame.rows) |->
              [j \in 1 .. Len(frame.cols) |-> csv_cell(frame.rows[r][j])]])

------------------------------------------------------------------------------
(* The news CSVs explored                                                   *)

\* date cells: unparseable text, an empty field, 2024-03-15T19:30:00Z,
\* and the zone-naive "2024-03-15 21:30:00"
BadDate   == [kind |-> "str", ok |-> FALSE, wall |-> 0, aware |-> FALSE, off |-> 0]
GoodDate  == [kind |-> "str", ok |-> TRUE, wall |-> 19797 * 1440 + 19 * 60 + 30,
              aware |-> TRUE, off |-> 0]
NaiveDate == [kind |-> "str", ok |-> TRUE, wall |-> 19797 * 1440 + 21 * 60 + 30,
              aware |-> FALSE, off |-> 0]
DateCells == {BadDate, NoneValue, GoodDate, NaiveDate}

\* headline cells: an empty field, a text the scorer fails on, and texts
\* with compound scores around the two thresholds
TextCells ==
    {NoneValue, TextCell(0, TRUE)}
      \cup { TextCell(c, FALSE) : c \in {0 - 8000, 0 - 501, 0 - 500, 500, 501} }

FillerText == TextCell(9999, FALSE)
FillerDate == [kind |-> "str", ok |-> TRUE, wall |-> 19909 * 1440 + 12 * 60,
               aware |-> TRUE, off |-> 0]

RowValues ==
    { [d |-> d, t |-> TextCell(501, FALSE)] : d \in DateCells }
      \cup { [d |-> GoodDate, t |-> t] : t \in TextCells }

\* headers: canonical; aliases in other cases; the default name after
\* another alias; no text alias; no date alias; two date aliases of which
\* the second is already named "date"
Headers ==
    { [cols |-> <<"headline", "date">>,                    textAt |-> 1, dateAt |-> 2],
      [cols |-> <<"Title", "News", "Datetime", "TIME">>,   textAt |-> 1, dateAt |-> 3],
      [cols |-> <<"title", "headline", "date">>,           textAt |-> 2, dateAt |-> 3],
      [cols |-> <<"body", "date">>,                        textAt |-> 1, dateAt |-> 2],
      [cols |-> <<"headline", "when">>,                    textAt |-> 1, dateAt |-> 2],
      [cols |-> <<"headline", "Date", "date">>,            textAt |-> 1, dateAt |-> 2] }

FillerCell(name) ==
    IF IsDateAlias(name) THEN FillerDate
    ELSE IF IsTextAlias(name) THEN FillerText
    ELSE OtherCell

FileRow(h, rv) ==
    [j \in 1 .. Len(h.cols) |->
        IF j = h.textAt THEN rv.t
        ELSE IF j = h.dateAt THEN rv.d
        ELSE FillerCell(h.cols[j])]

RowSeqs == UNION { [1 .. n -> RowValues] : n \in 0 .. MaxRows }

CsvFiles ==
    { [exists |-> TRUE, cols |-> h.cols,
       rows |-> [i \in 1 .. Len(rs) |-> FileRow(h, rs[i])]] :
          h \in Headers, rs \in RowSeqs }

\* file_path names a CSV, a file of zero bytes, or nothing
Files == CsvFiles \cup {EmptyFile, MissingFile}

\* column_name arguments: the default, and a name given by the caller
ColumnNames == {"headline", "body"}

------------------------------------------------------------------------------
(* analyze_correlation (correlation_analysis.py).  Exact arithmetic: a      *)
(* float is a reduced fraction num/den of the score unit (den > 0), or NaN. *)

RECURSIVE gcd(_, _)
gcd(a, b) == IF b = 0 THEN a ELSE gcd(b, a % b)

abs(x) == IF x < 0 THEN 0 - x ELSE x

NaN == [nan |-> TRUE, num |-> 0, den |-> 1]
Rat(n, d) ==
    LET g == gcd(abs(n), abs(d))
        sg == IF d < 0 THEN 0 - 1 ELSE 1
    IN  [nan |-> FALSE, num |-> sg * (n \div g), den |-> sg * (d \div g)]

MissingCsv == [exists |-> FALSE, has_stock |-> FALSE, rows |-> <<>>]
Csv(has_stock, rows) == [exists |-> TRUE, has_stock |-> has_stock, rows |-> rows]

UnknownDate == 0 - 1    \* trading_date NaT (an empty field of the CSV)

\* df_sentiment[df_sentiment['stock'] == ticker]
filter_ticker(rows, ticker) == SelectSeq(rows, LAMBDA r : r.stock = ticker)

\* groupby('trading_date')['sentiment_score']: one pass over the rows in
\* order, accumulating the sum and the number of observations of each key;
\* rows whose key is NaT belong to no group
RECURSIVE group_sums(_, _)
group_sums(rows, n) ==
    IF n = 0 THEN [d \in {} |-> [sum |-> 0, nobs |-> 0]]
    ELSE LET acc == group_sums(rows, n - 1)
             r   == rows[n]
         IN  IF r.trading_date = UnknownDate THEN acc
             ELSE IF r.trading_date \in DOMAIN acc
             THEN [acc EXCEPT ![r.trading_date] =
                       [sum |-> @.sum + r.sentiment_score, nobs |-> @.nobs + 1]]
             ELSE [d \in DOMAIN acc \cup {r.trading_date} |->
                       IF d = r.trading_date
                       THEN [sum |-> r.sentiment_score, nobs |-> 1]
                       ELSE acc[d]]

\* the keys of a grouping in ascending order
RECURSIVE sorted_keys(_)
sorted_keys(S) ==
    IF S = {} THEN <<>>
    ELSE LET m == CHOOSE x \in S : \A y \in S : x <= y
         IN  <<m>> \o sorted_keys(S \ {m})

\* variant: a running average of averages instead of sum / count
RECURSIVE group_running(_, _)
group_running(rows, n) ==
    IF n = 0 THEN [d \in {} |-> [sum |-> 0, nobs |-> 0]]
    ELSE LET acc == group_running(rows, n - 1)
             r   == rows[n]
         IN  IF r.trading_date = UnknownDate THEN acc
             ELSE IF r.trading_date \in DOMAIN acc
             THEN [acc EXCEPT ![r.trading_date] =
                       [sum |-> (@.sum + r.sentiment_score) \div 2, nobs |-> 1]]
             ELSE [d \in DOMAIN acc \cup {r.trading_date} |->
                       IF d = r.trading_date
                       THEN [sum |-> r.sentiment_score, nobs |-> 1]
                       ELSE acc[d]]

daily_sentiment_running(rows) ==
    LET g    == group_running(rows, Len(rows))
        keys == sorted_keys(DOMAIN g)
    IN  [i \in 1 .. Len(keys) |->
            [trading_date |-> keys[i],
             daily_sentiment |-> Rat(g[keys[i]].sum, g[keys[i]].nobs)]]

\* groupby('trading_date')['sentiment_score'].mean().reset_index(), renamed:
\* one row per trading date, ascending, holding the mean only
daily_sentiment_of(rows) ==
    LET g    == group_sums(rows, Len(rows))
        keys == sorted_keys(DOMAIN g)
    IN  [i \in 1 .. Len(keys) |->
            [trading_date |-> keys[i],
             daily_sentiment |-> Rat(g[keys[i]].sum, g[keys[i]].nobs)]]

\* variant: the bars left in file order
unsorted_by_date(bars) == bars

\* df_stock.sort_values(date_col): ascending by date
sort_values_by_date(bars) ==
    LET keys == sorted_keys({ bars[i].date : i \in 1 .. Len(bars) })
    IN  [i \in 1 .. Len(keys) |->
            bars[CHOOSE j \in 1 .. Len(bars) : bars[j].date = keys[i]]]

\* df_stock['Close'].pct_change(): NaN for the first row, else the change
\* relative to the row before
pct_change(bars) ==
    [i \in 1 .. Len(bars) |->
        [date |-> bars[i].date, close |-> bars[i].close,
         daily_return |-> IF i = 1 THEN NaN
                          ELSE Rat(bars[i].close - bars[i - 1].close, bars[i - 1].close)]]

\* pd.merge(daily_sentiment, df_stock, left_on='trading_date', right_on=date_col,
\* how='inner'): the rows of both with equal keys, in the order of the left keys
RECURSIVE merge_inner(_, _, _)
merge_inner(daily, stock, n) ==
    IF n = 0 THEN <<>>
    ELSE merge_inner(daily, stock, n - 1) \o
         [k \in 1 .. Cardinality({ j \in 1 .. Len(stock) : stock[j].date = daily[n].trading_date }) |->
             LET j == CHOOSE j \in 1 .. Len(stock) : stock[j].date = daily[n].trading_date
             IN  [trading_date |-> daily[n].trading_date,
                  daily_sentiment |-> daily[n].daily_sentiment,
                  close |-> stock[j].close,
                  daily_return |-> stock[j].daily_return]]

RECURSIVE seq_sum(_, _)
seq_sum(xs, n) == IF n = 0 THEN 0 ELSE seq_sum(xs, n - 1) + xs[n]

RECURSIVE seq_lcm(_, _)
seq_lcm(ds, n) == IF n = 0 THEN 1
                  ELSE LET l == seq_lcm(ds, n - 1) IN (l \div gcd(l, ds[n])) * ds[n]

RECURSIVE seq_gcd(_, _)
seq_gcd(xs, n) == IF n = 0 THEN 0 ELSE gcd(seq_gcd(xs, n - 1), abs(xs[n]))

\* the fractions of a sequence as integers in a common unit (Pearson's r does
\* not depend on the unit)
common_unit(fs) ==
    LET l  == seq_lcm([i \in 1 .. Len(fs) |-> fs[i].den], Len(fs))
        xs == [i \in 1 .. Len(fs) |-> fs[i].num * (l \div fs[i].den)]
        g  == seq_gcd(xs, Len(xs))
    IN  IF g = 0 THEN xs ELSE [i \in 1 .. Len(xs) |-> xs[i] \div g]

NanCorr == [kind |-> "nan", sign |-> 0, num |-> 0, den |-> 1]

\* Series.corr (Pearson): the pairs with a missing member are dropped; fewer
\* than two pairs, or a constant member, give NaN; otherwise r, held as its
\* sign and r squared = num / den
series_corr(merged) ==
    LET valid == SelectSeq(merged, LAMBDA m : ~m.daily_sentiment.nan /\ ~m.daily_return.nan)
        n     == Len(valid)
        xs    == common_unit([i \in 1 .. n |-> valid[i].daily_sentiment])
        ys    == common_unit([i \in 1 .. n |-> valid[i].daily_return])
        sx    == seq_sum(xs, n)
        sy    == seq_sum(ys, n)
        sxy   == seq_sum([i \in 1 .. n |-> xs[i] * ys[i]], n)
        sxx   == seq_sum([i \in 1 .. n |-> xs[i] * xs[i]], n)
        syy   == seq_sum([i \in 1 .. n |-> ys[i] * ys[i]], n)
        cov   == n * sxy - sx * sy
        vx    == n * sxx - sx * sx
        vy    == n * syy - sy * sy
    IN  IF n < 2 \/ vx = 0 \/ vy = 0 THEN NanCorr
        ELSE LET r2 == Rat(cov * cov, vx * vy)
             IN  [kind |-> "num",
                  sign |-> IF cov > 0 THEN 1 ELSE IF cov < 0 THEN 0 - 1 ELSE 0,
                  num |-> r2.num, den |-> r2.den]

MIN_MERGED == 2

NotRun == [status |-> "not run", daily_sentiment |-> <<>>, df_stock |-> <<>>,
           merged |-> <<>>, correlation |-> NanCorr, printed |-> <<>>]

Report(status, daily, stock, merged, correlation, printed) ==
    [status |-> status, daily_sentiment |-> daily, df_stock |-> stock,
     merged |-> merged, correlation |-> correlation, printed |-> printed]

\* analyze_correlation: the path taken (status), its intermediate frames, and
\* the figures it prints
analyze_correlation(ticker, sentiment, stock) ==
    IF ~sentiment.exists
    THEN Report("FileNotFoundError", <<>>, <<>>, <<>>, NanCorr, <<>>)
    ELSE IF ~sentiment.has_stock
    THEN Report("no stock column", <<>>, <<>>, <<>>, NanCorr,
                <<"Error: 'stock' column not found. Columns are: ", "columns">>)
    ELSE LET df_ticker_sentiment == filter_ticker(sentiment.rows, ticker) IN
    IF df_ticker_sentiment = <<>>
    THEN Report("no news", <<>>, <<>>, <<>>, NanCorr, <<"No news data found for ticker">>)
    ELSE LET daily == daily_sentiment_of(df_ticker_sentiment) IN
    IF ~stock.exists
    THEN Report("no stock file", daily, <<>>, <<>>, NanCorr, <<"Found days", Len(daily)>>)
    ELSE LET df_stock == pct_change(sort_values_by_date(stock.rows))
             merged   == merge_inner(daily, df_stock, Len(daily))
         IN  IF Len(merged) < MIN_MERGED
             THEN Report("insufficient", daily, df_stock, merged, NanCorr,
                         <<"Found days", Len(daily), "Merged data points", Len(merged),
                           "Not enough overlapping data points to calculate correlation.">>)
             ELSE Report("correlation", daily, df_stock, merged, series_corr(merged),
                         <<"Found days", Len(daily), "Merged data points", Len(merged),
                           "Pearson Correlation">>)

TARGET_TICKER == "AAPL"

------------------------------------------------------------------------------
(* The inputs of analyze_correlation explored                               *)

\* three consecutive calendar days: 2024-03-14, 2024-03-15, 2024-03-16
CorrDates == 19796 .. 19798

NewsRow(stock, date, score) ==
    [stock |-> stock, trading_date |-> date, sentiment_score |-> score]

NewsRowValues ==
    { NewsRow("AAPL", d, sc) : d \in CorrDates \cup {UnknownDate}, sc \in {8000, 0 - 2000} }
      \cup { NewsRow("MSFT", 19796, 5000) }

SentimentCsvs ==
    { Csv(TRUE, rows) : rows \in UNION { [1 .. n -> NewsRowValues] : n \in 0 .. MaxNews } }
      \cup { MissingCsv, Csv(FALSE, <<>>) }

\* closing prices of the three days
CloseOn(d) == CASE d = 19796 -> 100 [] d = 19797 -> 110 [] OTHER -> 99

\* price files: any selection of distinct days, in any row order
StockCsvs ==
    { Csv(FALSE, [i \in 1 .. Len(ds) |-> [date |-> ds[i], close |-> CloseOn(ds[i])]]) :
          ds \in { q \in UNION { [1 .. n -> CorrDates] : n \in 0 .. 3 } :
                       \A i, j \in 1 .. Len(q) : i # j => q[i] # q[j] } }
      \cup { MissingCsv }

InitCorr ==
    /\ sentiment_csv \in SentimentCsvs
    /\ stock_csv \in StockCsvs
    /\ report = NotRun
    /\ file = EmptyFile
    /\ df = NoDataFrame
    /\ outcome = NoCall
    /\ ret = <<>>
    /\ disk = NoDataFrame
    /\ dt = NoneValue
    /\ aligned = NotCalled
    /\ apc = "idle"

AnalyzeCorrelation ==
    /\ report = NotRun
    /\ report' = analyze_correlation(TARGET_TICKER, sentiment_csv, stock_csv)
    /\ UNCHANGED <<sentiment_csv, stock_csv, alignVars, analyzerVars>>

NextCorr == AnalyzeCorrelation

SpecCorr == InitCorr /\ [][NextCorr]_vars

------------------------------------------------------------------------------
(* Lifecycle of one SentimentAnalyzer                                       *)

Init ==
    /\ file \in Files
    /\ df = NoDataFrame
    /\ outcome = NoCall
    /\ ret = <<>>
    /\ disk = NoDataFrame
    /\ sentiment_csv = MissingCsv
    /\ stock_csv = MissingCsv
    /\ report = NotRun
    /\ dt = NoneValue
    /\ aligned = NotCalled
    /\ apc = "idle"

LoadData ==
    LET l == load_data(df, file) IN
    /\ df' = l.df
    /\ outcome' = Call("load_data", "", l.exc, l.msg)
    /\ ret' = IF l.exc = "none" THEN <<l.df>> ELSE <<>>
    /\ UNCHANGED <<file, disk, alignVars, corrVars>>

AnalyzeSentiment ==
    \E column_name \in ColumnNames :
        LET a == analyze_sentiment(df, file, column_name) IN
        /\ df' = a.df
        /\ outcome' = Call("analyze_sentiment", column_name, a.exc, a.msg)
        /\ ret' = IF a.exc = "none" THEN <<a.df>> ELSE <<>>
        /\ UNCHANGED <<file, disk, alignVars, corrVars>>

SaveResults ==
    /\ IF ~df.loaded
       THEN /\ outcome' = Call("save_results", "", "RuntimeError", MSG_NO_DATA)
            /\ disk' = disk
       ELSE /\ outcome' = Call("save_results", "", "none", <<>>)
            /\ disk' = to_csv(df)
    /\ ret' = <<>>
    /\ UNCHANGED <<file, df, alignVars, corrVars>>

Next == LoadData \/ AnalyzeSentiment \/ SaveResults

Spec == Init /\ [][Next]_vars

------------------------------------------------------------------------------
(* Alignment applied to one argument drawn from the explored input space    *)

AnchorDays ==
    { days_from_civil(2024, 1, 12),     \* winter, a Friday
      days_from_civil(2024, 3, 9),      \* eve of the switch to daylight time
      days_from_civil(2024, 3, 15),     \* a Friday in daylight time
      days_from_civil(2024, 7, 5),      \* summer, a Friday
      days_from_civil(2024, 11, 2),     \* eve of the switch back
      days_from_civil(2024, 12, 31) }   \* year end

AlignDays    == UNION { a .. (a + DaySpan - 1) : a \in AnchorDays }
AlignMinutes == {0, 30, 59}
AlignWalls   == { d * MinutesPerDay + h * 60 + m :
                      d \in AlignDays, h \in 0 .. 23, m \in AlignMinutes }
\* UTC offsets of zone-aware inputs: UTC, India (+05:30), US Pacific standard (-08:00)
SourceOffsets == {0, 330, 0 - 480}

AlignTimestamps ==
    { Timestamp(w, FALSE, 0) : w \in AlignWalls }
      \cup { Timestamp(w, TRUE, o) : w \in AlignWalls, o \in SourceOffsets }

AlignStrings ==
    { [kind |-> "str", ok |-> TRUE, wall |-> w, aware |-> a, off |-> 0] :
          w \in AlignWalls, a \in BOOLEAN }
      \cup { [kind |-> "str", ok |-> FALSE, wall |-> 0, aware |-> FALSE, off |-> 0] }

AlignInputs == {NoneValue, NaT} \cup AlignTimestamps \cup AlignStrings

InitAlign ==
    /\ dt \in AlignInputs
    /\ aligned = NotCalled
    /\ apc = "call"
    /\ file = EmptyFile
    /\ df = NoDataFrame
    /\ outcome = NoCall
    /\ ret = <<>>
    /\ disk = NoDataFrame
    /\ sentiment_csv = MissingCsv
    /\ stock_csv = MissingCsv
    /\ report = NotRun

AlignCall ==
    /\ apc = "call"
    /\ aligned' = _align_to_trading_day(dt)
    /\ apc' = "done"
    /\ UNCHANGED <<dt, analyzerVars, corrVars>>

NextAlign == AlignCall

SpecAlign == InitAlign /\ [][NextAlign]_vars

------------------------------------------------------------------------------
(* Properties of _align_to_trading_day, checked under SpecAlign             *)

WellFormed(x) == x.kind = "ts" \/ (x.kind = "str" /\ x.ok)

\* The instant an argument denotes, a zone-naive wall clock read as UTC
DenotedInstant(x) == IF x.aware THEN x.wall - x.off ELSE x.wall

\* US/Eastern wall clock of an instant of the explored period (November 2023
\* to March 2025), from the 2024 transition instants written out:
\* 2024-03-10T07:00Z and 2024-11-03T06:00Z
EasternWall2024(instant) ==
    IF 19792 * 1440 + 7 * 60 <= instant /\ instant < 20030 * 1440 + 6 * 60
    THEN instant - 240
    ELSE instant - 300

LocalDate(x) == EasternWall2024(DenotedInstant(x)) \div 1440
LocalHour(x) == (EasternWall2024(DenotedInstant(x)) % 1440) \div 60

ScenarioA == Timestamp(19797 * 1440 + 19 * 60 + 30, TRUE, 0)   \* 2024-03-15T19:30:00Z
ScenarioB == Timestamp(19797 * 1440 + 21 * 60 + 30, TRUE, 0)   \* 2024-03-15T21:30:00Z
AtClose   == Timestamp(19797 * 1440 + 20 * 60, TRUE, 0)        \* 16:00:00 EDT, a Friday

\* C1: a well-formed timestamp whose US/Eastern local hour is in 0..15 is
\* aligned to exactly its US/Eastern local calendar date; 2024-03-15T19:30Z
\* (15:30 EDT) is aligned to 2024-03-15.
C1_SameDayBeforeClose ==
    apc = "done" =>
        /\ (WellFormed(dt) /\ LocalHour(dt) \in 0 .. 15)
               => aligned = DateResult(LocalDate(dt))
        /\ dt = ScenarioA
               => /\ aligned.kind = "date"
                  /\ civil_from_days(aligned.ord) = [year |-> 2024, month |-> 3, day |-> 15]

C1_Witness ==
    /\ apc = "done"
    /\ dt = ScenarioA
    /\ LocalHour(dt) = 15
    /\ aligned = DateResult(19797)

\* C2: a well-formed timestamp whose US/Eastern local hour is in 16..23,
\* 16:00:00 included, is aligned to its local calendar date plus exactly one
\* day, whatever day of the week that is; 2024-03-15T21:30Z is aligned to
\* 2024-03-16.
C2_NextDayAfterClose ==
    apc = "done" =>
        /\ (WellFormed(dt) /\ LocalHour(dt) \in 16 .. 23)
               => aligned = DateResult(LocalDate(dt) + 1)
        /\ dt \in {ScenarioB, AtClose}
               => /\ aligned.kind = "date"
                  /\ civil_from_days(aligned.ord) = [year |-> 2024, month |-> 3, day |-> 16]

\* 16:00:00 on a Friday is aligned to the Saturday
C2_Witness ==
    /\ apc = "done"
    /\ dt = AtClose
    /\ LocalHour(dt) = 16
    /\ aligned.kind = "date"
    /\ weekday(aligned.ord) = 5

\* C3: the call never raises: it returns a trading date exactly when the
\* argument is a well-formed timestamp, and None when it is missing, NaT or
\* unparseable.
C3_AlignTotal ==
    apc = "done" =>
        /\ aligned.kind \in {"date", "None"}
        /\ aligned.kind = "date" <=> WellFormed(dt)
        /\ ~WellFormed(dt) => aligned = NoneResult

C3_Witness ==
    /\ apc = "done"
    /\ dt.kind = "str"
    /\ ~dt.ok
    /\ aligned = NoneResult

\* C4: a zone-naive timestamp is aligned as the same wall clock tagged UTC,
\* and the date and hour are taken after conversion to US/Eastern with its
\* daylight-saving offset (UTC-4 in summer, UTC-5 in winter).
C4_NaiveIsUtcEasternDst ==
    (apc = "done" /\ WellFormed(dt)) =>
        /\ aligned = DateResult(LocalDate(dt)
                                + (IF LocalHour(dt) >= 16 THEN 1 ELSE 0))
        /\ ~dt.aware =>
               aligned = _align_to_trading_day(Timestamp(dt.wall, TRUE, 0))

\* a naive 2024-07-05 20:00 is 16:00 EDT (next day); 20:00 in January would be 15:00 EST
C4_Witness ==
    /\ apc = "done"
    /\ dt = Timestamp(19909 * 1440 + 20 * 60, FALSE, 0)
    /\ aligned = DateResult(19910)

------------------------------------------------------------------------------
(* Properties of the SentimentAnalyzer methods, checked under Spec          *)

\* least index of a column whose lower-cased name is in `aliases`, 0 if none
FirstAliasAt(cols, aliases) ==
    IF \E j \in 1 .. Len(cols) : lower(cols[j]) \in aliases
    THEN CHOOSE j \in 1 .. Len(cols) :
             /\ lower(cols[j]) \in aliases
             /\ \A k \in 1 .. (j - 1) : lower(cols[k]) \notin aliases
    ELSE 0

FirstDateAt(cols) == FirstAliasAt(cols, {"date", "datetime", "time"})
FirstTextAt(cols) == FirstAliasAt(cols, {"headline", "title", "news", "text"})

\* index of the exact name when present, else of the first text alias
TextAt(cols, name) ==
    IF \E j \in 1 .. Len(cols) : cols[j] = name
    THEN CHOOSE j \in 1 .. Len(cols) : cols[j] = name
    ELSE FirstTextAt(cols)

Analyzed == outcome.op = "analyze_sentiment" /\ outcome.exc = "none"

Readable == file.exists /\ file.cols # <<>>

DateCellAt(r) == file.rows[r][FirstDateAt(file.cols)]

Unparseable(cell) == cell.kind = "None" \/ (cell.kind = "str" /\ ~cell.ok)

\* the timestamp of row r is well formed but written unlike the first
\* non-empty timestamp of the file (one has a zone, the other has none)
OffLayout(r) ==
    /\ ~Unparseable(DateCellAt(r))
    /\ \E k \in 1 .. (r - 1) :
           /\ \A j \in 1 .. (k - 1) : DateCellAt(j).kind = "None"
           /\ DateCellAt(k).kind = "str"
           /\ DateCellAt(k).ok
           /\ DateCellAt(k).aware # DateCellAt(r).aware

\* rows whose timestamp the load cannot parse
UnparseableRows ==
    { r \in 1 .. Len(file.rows) : Unparseable(DateCellAt(r)) \/ OffLayout(r) }

SentimentColumns == {"sentiment_score", "sentiment_label", "trading_date"}
AddedColumns(frame) == { c \in SentimentColumns : HasColumn(frame, c) }

\* C7: wherever labels exist, a row is 'positive' exactly when its score is
\* above 0.05, 'negative' exactly when below -0.05 and 'neutral' otherwise
\* (0.05 and -0.05 are neutral); after analyze_sentiment a row whose text is
\* missing has score 0.0 and label 'neutral', and a scored text has the
\* scorer's compound value.
C7_LabelThresholds ==
    /\ HasColumn(df, "sentiment_label") =>
           \A r \in 1 .. Len(df.rows) :
               LET v == Column(df, "sentiment_score")[r].v
                   l == Column(df, "sentiment_label")[r].v
               IN  /\ l = "positive" <=> v > 500
                   /\ l = "negative" <=> v < 0 - 500
                   /\ l = "neutral"  <=> (0 - 500 <= v /\ v <= 500)
    /\ Analyzed =>
           \A r \in 1 .. Len(df.rows) :
               LET text == file.rows[r][TextAt(file.cols, outcome.arg)]
                   v    == Column(df, "sentiment_score")[r].v
                   l    == Column(df, "sentiment_label")[r].v
               IN  /\ text.kind = "None" => (v = 0 /\ l = "neutral")
                   /\ (text.kind = "text" /\ ~text.raises) => v = text.compound

\* one row scored exactly 0.05 and one row without text, both neutral
C7_Witness ==
    /\ Analyzed
    /\ \E r1, r2 \in 1 .. Len(df.rows) :
           /\ Column(df, "sentiment_score")[r1].v = 500
           /\ Column(df, "sentiment_label")[r1].v = "neutral"
           /\ file.rows[r2][TextAt(file.cols, outcome.arg)].kind = "None"
           /\ Column(df, "sentiment_score")[r2].v = 0
           /\ Column(df, "sentiment_label")[r2].v = "neutral"

SchemaMessages == {MSG_NO_DATE} \cup { MsgNoText(n) : n \in ColumnNames }
SchemaFailure == outcome.exc = "ValueError" /\ outcome.msg \in SchemaMessages

ListsColumns(msg, cols) ==
    \A j \in 1 .. Len(cols) : \E i \in 1 .. Len(msg) : msg[i] = cols[j]

\* a call that needs a column of which the file holds no alias: load_data
\* and analyze_sentiment need the timestamp column, analyze_sentiment the
\* text column
LacksRequired(op, arg) ==
    /\ Readable
    /\ \/ op \in {"load_data", "analyze_sentiment"} /\ FirstDateAt(file.cols) = 0
       \/ op = "analyze_sentiment" /\ TextAt(file.cols, arg) = 0

\* C9: column discovery is case-insensitive over the alias sets; when some
\* alias is present the first match is the column used, and when no alias of
\* a required field is present the call fails with an error that lists the
\* available columns and adds no sentiment_score, sentiment_label or
\* trading_date column.
C9_ErrorListsColumns ==
    [][ /\ (outcome'.op = "analyze_sentiment" /\ outcome'.exc = "none") =>
               \A r \in 1 .. Len(df'.rows) :
                   FirstTextAt(file.cols) # 0 =>
                       LET text == file.rows[r][FirstTextAt(file.cols)]
                       IN  (text.kind = "text" /\ ~text.raises)
                               => Column(df', "sentiment_score")[r].v = text.compound
        /\ LacksRequired(outcome'.op, outcome'.arg) =>
               /\ outcome'.exc # "none"
               /\ ListsColumns(outcome'.msg, file.cols)
               /\ AddedColumns(df') \subseteq AddedColumns(df) ]_vars

\* the failure alone, without the demand on the message: a call that lacks
\* a required column raises and adds no sentiment column
C9_FailsWithoutAdding ==
    [][ LacksRequired(outcome'.op, outcome'.arg) =>
            /\ outcome'.exc # "none"
            /\ AddedColumns(df') \subseteq AddedColumns(df) ]_vars

\* what discovery does guarantee, call by call
C9_DiscoveryState ==
    \* the timestamp column: first case-insensitive alias, renamed to "date"
    /\ (outcome.op = "load_data" /\ outcome.exc = "none") =>
           /\ FirstDateAt(file.cols) # 0
           /\ df.cols = [file.cols EXCEPT ![FirstDateAt(file.cols)] = "date"]
           /\ \A r \in 1 .. Len(df.rows) :
                  df.rows[r][FirstDateAt(file.cols)].kind \in {"ts", "NaT"}
    /\ (outcome.op = "load_data" /\ outcome.exc # "none" /\ Readable) =>
           /\ FirstDateAt(file.cols) = 0
           /\ outcome.exc = "ValueError"
           /\ outcome.msg = <<"No date/datetime column found in the input CSV.">>
           /\ df = Frame(file.cols, file.rows)
    \* the text column: the requested name when present, else the first alias
    /\ Analyzed =>
           /\ TextAt(file.cols, outcome.arg) # 0
           /\ \A r \in 1 .. Len(df.rows) :
                  LET text == file.rows[r][TextAt(file.cols, outcome.arg)]
                  IN  (text.kind = "text" /\ ~text.raises)
                          => Column(df, "sentiment_score")[r].v = text.compound
    /\ (outcome.op = "analyze_sentiment" /\ outcome.exc = "ValueError"
            /\ outcome.msg = <<"Text column '", outcome.arg, "' not found.">>) =>
           /\ TextAt(file.cols, outcome.arg) = 0
           /\ ~ListsColumns(outcome.msg, file.cols)
    /\ (outcome.op = "analyze_sentiment" /\ outcome.exc = "ValueError"
            /\ outcome.msg = MSG_NO_DATE) =>
           /\ FirstDateAt(file.cols) = 0
           /\ ~ListsColumns(outcome.msg, file.cols)
           /\ df = Frame(file.cols, file.rows)

\* a call that fails for a missing column adds no sentiment column
C9_DiscoveryStep ==
    (outcome'.exc = "ValueError" /\ outcome'.msg \in SchemaMessages)
        => AddedColumns(df') \subseteq AddedColumns(df)

\* what the code does meet: the timestamp column is the first column whose
\* lower-cased name is date/datetime/time; the text column is the requested
\* column_name when a column has exactly that name, otherwise the first
\* column whose lower-cased name is headline/title/news/text; a call that
\* raises one of the two fixed ValueErrors names no column in the message
\* and adds no sentiment column
C9_Discovery == [](C9_DiscoveryState) /\ [][C9_DiscoveryStep]_vars

\* a file with the columns body and date, analysed with the default
\* column_name: ValueError, a message without the columns, nothing added
TextColumnMissingReached ==
    /\ outcome.op = "analyze_sentiment"
    /\ outcome.arg = "headline"
    /\ outcome.exc = "ValueError"
    /\ file.cols = <<"body", "date">>
    /\ Len(file.rows) = 2
    /\ outcome.msg = <<"Text column '", "headline", "' not found.">>
    /\ AddedColumns(df) = {}

------------------------------------------------------------------------------
(* Lifecycle of the analyzer over any sequence of calls, checked under Spec *)

\* save_results writes the frame exactly when self.df is not None, and
\* otherwise raises RuntimeError and leaves the disk as it was; no other
\* call writes
SaveWritesOnlyLoaded ==
    /\ outcome'.op = "save_results" =>
           IF df.loaded
           THEN outcome'.exc = "none" /\ disk' = to_csv(df) /\ disk'.loaded
           ELSE outcome'.exc = "RuntimeError" /\ disk' = disk
    /\ outcome'.op # "save_results" => disk' = disk

\* analyze_sentiment on an analyzer without data reads the file first; a
\* file that is absent or of zero bytes makes the read raise and leaves the
\* analyzer without data
AnalyzeLoadsFirst ==
    (~df.loaded /\ outcome'.op = "analyze_sentiment") =>
        IF ~Readable
        THEN /\ df' = df
             /\ outcome'.exc = (IF file.exists THEN "EmptyDataError"
                                ELSE "FileNotFoundError")
        ELSE /\ df'.loaded
             /\ Len(df'.rows) = Len(file.rows)
             /\ IF FirstDateAt(file.cols) = 0
                THEN /\ df' = Frame(file.cols, file.rows)
                     /\ outcome'.exc = "ValueError"
                     /\ outcome'.msg = <<"No date/datetime column found in the input CSV.">>
                ELSE SubSeq(df'.cols, 1, Len(file.cols))
                         = [file.cols EXCEPT ![FirstDateAt(file.cols)] = "date"]

\* a sentiment column enters self.df only in a call of analyze_sentiment
\* that runs to completion
ColumnsOnlyWhenCompleted ==
    ~(AddedColumns(df') \subseteq AddedColumns(df))
        => (outcome'.op = "analyze_sentiment" /\ outcome'.exc = "none")

\* save_results right after a load_data that read the file writes a file
\* without the columns
SaveAfterLoadIsPlain ==
    (outcome.op = "load_data" /\ Readable /\ outcome'.op = "save_results") =>
        /\ disk'.loaded
        /\ AddedColumns(disk') = {}

\* C11: over any sequence of load_data, analyze_sentiment and save_results
\* calls, save_results writes a file only when self.df is not None and
\* otherwise raises RuntimeError without writing; analyze_sentiment without
\* data first performs load_data; the sentiment_score, sentiment_label and
\* trading_date columns exist in self.df only after analyze_sentiment has
\* completed; and save_results after load_data alone writes a file without
\* those columns.
C11_Lifecycle ==
    [][ /\ SaveWritesOnlyLoaded
        /\ AnalyzeLoadsFirst
        /\ ColumnsOnlyWhenCompleted
        /\ SaveAfterLoadIsPlain ]_vars

\* the parts of the lifecycle that hold on every step
LifecycleWritesAndLoads ==
    [][ SaveWritesOnlyLoaded /\ AnalyzeLoadsFirst /\ SaveAfterLoadIsPlain ]_vars

\* when all three columns are in self.df, a call of analyze_sentiment has
\* completed on the frame: each row has its label and its trading date
AllColumnsMeanCompleted ==
    AddedColumns(df) = SentimentColumns =>
        \A r \in 1 .. Len(df.rows) :
            /\ Column(df, "sentiment_label")[r].kind = "label"
            /\ Column(df, "trading_date")[r].kind \in {"ts", "NaT"}

\* a failed analyze_sentiment has left sentiment_score and sentiment_label
\* in self.df without trading_date
PartialColumnsReached ==
    /\ outcome.op = "analyze_sentiment"
    /\ outcome.exc # "none"
    /\ AddedColumns(df) = {"sentiment_score", "sentiment_label"}

------------------------------------------------------------------------------
(* Properties of analyze_correlation, checked under SpecCorr                *)

Aggregated == report.status \in {"no stock file", "insufficient", "correlation"}
ReachedJoin == report.status \in {"insufficient", "correlation"}

\* the ticker's events, by row index, and the events of one trading date
TickerEvents == { i \in 1 .. Len(sentiment_csv.rows) : sentiment_csv.rows[i].stock = "AAPL" }
EventsOn(d) == { i \in TickerEvents : sentiment_csv.rows[i].trading_date = d }
NewsDates == { sentiment_csv.rows[i].trading_date : i \in TickerEvents } \ {0 - 1}
PriceDates == { stock_csv.rows[i].date : i \in 1 .. Len(stock_csv.rows) }

RECURSIVE ScoreSum(_)
ScoreSum(I) ==
    IF I = {} THEN 0
    ELSE LET i == CHOOSE i \in I : TRUE
         IN  sentiment_csv.rows[i].sentiment_score + ScoreSum(I \ {i})

\* dates that carry both a daily sentiment and a daily return: news and a
\* price bar on the date, and an earlier price bar to take the return from
PairDates == { d \in NewsDates \cap PriceDates : \E p \in PriceDates : p < d }

\* C5: with fewer than 2 joined (daily sentiment, daily return) pairs the
\* call reports insufficient data instead of a coefficient, and a numeric
\* coefficient is produced only from at least 2 such pairs.
C5_InsufficientBelowTwoPairs ==
    ReachedJoin =>
        /\ Cardinality(PairDates) < 2 => report.status = "insufficient"
        /\ (report.status = "correlation" /\ report.correlation.kind = "num")
               => Cardinality(PairDates) >= 2

\* what the guard of the code counts: the joined rows, the earliest bar's
\* row with its missing return included
GuardCountsJoinedRows ==
    ReachedJoin =>
        /\ Len(report.merged) = Cardinality(NewsDates \cap PriceDates)
        /\ report.status = "insufficient" <=> Len(report.merged) < 2

Permuted(rows, pi) == [i \in 1 .. Len(rows) |-> rows[pi[i]]]

\* the daily rows are those of the ticker's events of known trading date,
\* one per date, ascending, each with the arithmetic mean of the scores of
\* exactly the events of that date (0.8 and -0.2 give 0.3), whatever the
\* order of the events
DailyMeansOrderFree ==
    /\ { report.daily_sentiment[k].trading_date :
             k \in 1 .. Len(report.daily_sentiment) } = NewsDates
    /\ Len(report.daily_sentiment) = Cardinality(NewsDates)
    /\ \A k \in 1 .. Len(report.daily_sentiment) :
           LET e == report.daily_sentiment[k]
               n == Cardinality(EventsOn(e.trading_date))
           IN  /\ ~e.daily_sentiment.nan
               /\ e.daily_sentiment.den > 0
               /\ e.daily_sentiment.num * n
                      = ScoreSum(EventsOn(e.trading_date)) * e.daily_sentiment.den
               /\ { sentiment_csv.rows[i].sentiment_score : i \in EventsOn(e.trading_date) }
                      = {8000, 0 - 2000} /\ n = 2
                    => e.daily_sentiment = [nan |-> FALSE, num |-> 3000, den |-> 1]
               /\ k > 1 => report.daily_sentiment[k - 1].trading_date < e.trading_date
    /\ \A pi \in Permutations(1 .. Len(sentiment_csv.rows)) :
           analyze_correlation("AAPL",
               Csv(TRUE, Permuted(sentiment_csv.rows, pi)), stock_csv).daily_sentiment
             = report.daily_sentiment

\* C6: the daily aggregation for a ticker groups the ticker's events by
\* trading date, leaves out those whose trading date is Unknown, and yields
\* for each trading date the mean of the scores of exactly the events of
\* that date together with their count (0.8 and -0.2 on one date give mean
\* 0.3, count 2), the same for every ordering of the events.
C6_MeanAndCount ==
    Aggregated =>
        /\ DailyMeansOrderFree
        /\ \A k \in 1 .. Len(report.daily_sentiment) :
               LET e == report.daily_sentiment[k]
               IN  /\ "news_count" \in DOMAIN e
                   /\ e.news_count = Cardinality(EventsOn(e.trading_date))

\* what the aggregation of analyze_correlation does yield: the means, in
\* rows that hold the trading date and the mean and nothing else
C6_DailyMeanOrderFree ==
    Aggregated =>
        /\ DailyMeansOrderFree
        /\ \A k \in 1 .. Len(report.daily_sentiment) :
               DOMAIN report.daily_sentiment[k] = {"trading_date", "daily_sentiment"}

\* scores 0.8 and -0.2 on one date and an event of Unknown date: one daily
\* row, mean 0.3
DailyMeanReached ==
    /\ Aggregated
    /\ Len(sentiment_csv.rows) = 3
    /\ \E i \in TickerEvents : sentiment_csv.rows[i].trading_date = 0 - 1
    /\ Len(report.daily_sentiment) = 1
    /\ Cardinality(EventsOn(report.daily_sentiment[1].trading_date)) = 2
    /\ report.daily_sentiment[1].daily_sentiment = [nan |-> FALSE, num |-> 3000, den |-> 1]

InputClose(d) ==
    stock_csv.rows[CHOOSE i \in 1 .. Len(stock_csv.rows) : stock_csv.rows[i].date = d].close

\* C10: whatever the row order of the price file (dates distinct), the bars
\* are in ascending date order when returns are taken: the earliest bar has
\* a missing return and every other bar has close / previous close - 1
\* against the bar of the immediately preceding date.
C10_ReturnsOnSortedBars ==
    ReachedJoin =>
        /\ Len(report.df_stock) = Len(stock_csv.rows)
        /\ { report.df_stock[k].date : k \in 1 .. Len(report.df_stock) } = PriceDates
        /\ \A k \in 1 .. Len(report.df_stock) :
               LET bar  == report.df_stock[k]
                   past == { p \in PriceDates : p < bar.date }
               IN  /\ bar.close = InputClose(bar.date)
                   /\ k > 1 => report.df_stock[k - 1].date < bar.date
                   /\ past = {} => bar.daily_return.nan
                   /\ past # {} =>
                          LET prev == CHOOSE p \in past : \A q \in past : q <= p
                          IN  /\ ~bar.daily_return.nan
                              /\ bar.daily_return.den > 0
                              /\ bar.daily_return.num * InputClose(prev)
                                     = (bar.close - InputClose(prev)) * bar.daily_return.den

\* a price file listing 2024-03-16, 2024-03-14, 2024-03-15 in that order:
\* returns missing, +1/10 and -1/10 by date
C10_Witness ==
    /\ ReachedJoin
    /\ Len(stock_csv.rows) = 3
    /\ stock_csv.rows[1].date = 19798
    /\ stock_csv.rows[2].date = 19796
    /\ report.df_stock[1].daily_return.nan
    /\ report.df_stock[2].daily_return = [nan |-> FALSE, num |-> 1, den |-> 10]
    /\ report.df_stock[3].daily_return = [nan |-> FALSE, num |-> 0 - 1, den |-> 10]

====
